---- MODULE Spec2Model ----
(***************************************************************************)
(* Model of img_extract.py: the scroll harvester                           *)
(* (get_image_urls_from_page), the snapshot extractor                      *)
(* (extract_images_from_current_state), the fetcher (download_image) and   *)
(* the run coordinator (main).                                             *)
(*                                                                         *)
(* Strings are sequences of lexical atoms: an atom is an indivisible piece *)
(* of text ("https://", "ex.com", "/", "a", ".png", " ", ",", "1", "x").   *)
(***************************************************************************)
EXTENDS Integers, Sequences, FiniteSets, TLC

(***************************************************************************)
(* Bounds of the model                                                     *)
(***************************************************************************)
\* document heights the page can report are 1..MaxHeight
MaxHeight == 6
\* scroll offsets the page can report are 0..MaxOffset
MaxOffset == 6
\* viewport heights the page can report are 1..MaxViewport
MaxViewport == 2
\* len(sys.argv) is 1..MaxArgc
MaxArgc == 3

(***************************************************************************)
(* Program constants                                                       *)
(***************************************************************************)
\* max_scroll_attempts = 5
max_scroll_attempts == 5

(***************************************************************************)
(* Strings                                                                 *)
(***************************************************************************)
\* str.lower() on one atom
Lower(a) ==
    CASE a = "SVG" -> "svg"
      [] a = ".SVG" -> ".svg"
      [] a = ".PNG" -> ".png"
      [] OTHER -> a

\* atoms whose lower-case text contains the substring "svg"
SvgAtoms == {"svg", ".svg"}

\* atoms that are file extensions (a dot followed by letters)
ExtAtoms == {".png", ".jpg", ".svg", ".SVG", ".PNG"}

\* atoms that start a query or a fragment
QueryAtoms == {"?x=1"}

\* url.startswith(prefixes)
StartsWith(s, prefixes) == Len(s) > 0 /\ s[1] \in prefixes

\* urljoin(base_url, url) for a base "scheme host path..." and a reference
\* that carries no scheme: an empty reference is the base, a reference that
\* starts with "/" replaces the path, any other one replaces the last
\* segment of the base path
urljoin(base, ref) ==
    IF Len(ref) = 0 THEN base
    ELSE IF ref[1] = "/" THEN SubSeq(base, 1, 2) \o ref
    ELSE LET slashes == {i \in 3..Len(base) : base[i] = "/"}
             last == IF slashes = {} THEN 2
                     ELSE CHOOSE i \in slashes : \A j \in slashes : j <= i
         IN  IF slashes = {} THEN SubSeq(base, 1, 2) \o <<"/">> \o ref
             ELSE SubSeq(base, 1, last) \o ref

\* download_image, "Handle relative URLs"
ResolveUrl(url, base_url) ==
    IF ~StartsWith(url, {"http://", "https://", "data:"})
    THEN urljoin(base_url, url)
    ELSE url

\* a faulty is_svg_image: the tests are made without lower()
is_svg_image_cased(url, content_type) ==
    IF Len(url) > 0 /\ url[Len(url)] = ".svg" THEN TRUE
    ELSE IF \E i \in 1..Len(url) : url[i] \in SvgAtoms THEN TRUE
    ELSE IF Len(content_type) > 0
            /\ \E i \in 1..Len(content_type) : content_type[i] \in SvgAtoms
         THEN TRUE
    ELSE FALSE

\* is_svg_image(url, content_type); an absent content type is <<>>
is_svg_image(url, content_type) ==
    IF Len(url) > 0 /\ Lower(url[Len(url)]) = ".svg" THEN TRUE
    ELSE IF \E i \in 1..Len(url) : Lower(url[i]) \in SvgAtoms THEN TRUE
    ELSE IF Len(content_type) > 0
            /\ \E i \in 1..Len(content_type) : Lower(content_type[i]) \in SvgAtoms
         THEN TRUE
    ELSE FALSE

\* urlparse(url).path: what follows the host, up to the query
UrlPath(url) ==
    LET qs == {i \in 3..Len(url) : url[i] \in QueryAtoms}
        end == IF qs = {} THEN Len(url)
               ELSE (CHOOSE i \in qs : \A j \in qs : i <= j) - 1
    IN  SubSeq(url, 3, end)

\* os.path.splitext(path)[1], with the '.jpg' default
Extension(url) ==
    LET path == UrlPath(url)
    IN  IF Len(path) >= 2 /\ path[Len(path)] \in ExtAtoms /\ path[Len(path) - 1] # "/"
        THEN path[Len(path)]
        ELSE ".jpg"

\* hashlib.md5(url.encode()).hexdigest(): a digest of the whole URL string
\* (distinct URLs of the model have distinct digests)
Md5(url) == <<"md5">> \o url

\* filename = f"{file_hash}{extension}"; filepath = join(save_dir, filename)
FilePath(url) == Md5(url) \o <<Extension(url)>>

(***************************************************************************)
(* Snapshot extraction                                                     *)
(***************************************************************************)
\* regular-expression character classes over atoms
IsSpace(a) == a = " "
IsDigits(a) == a \in {"1", "2", "5", "480"}
IsWX(a) == a \in {"w", "x"}
IsQuoteOrParen(a) == a \in {"'", "\"", ")"}

\* first index >= i of s whose atom is not in the class (Len(s)+1 if none)
RECURSIVE SkipSpace(_, _)
SkipSpace(s, i) == IF i <= Len(s) /\ IsSpace(s[i]) THEN SkipSpace(s, i + 1) ELSE i

RECURSIVE SkipNonSpace(_, _)
SkipNonSpace(s, i) == IF i <= Len(s) /\ ~IsSpace(s[i]) THEN SkipNonSpace(s, i + 1) ELSE i

RECURSIVE SkipDigits(_, _)
SkipDigits(s, i) == IF i <= Len(s) /\ IsDigits(s[i]) THEN SkipDigits(s, i + 1) ELSE i

RECURSIVE SkipUrlBody(_, _)
SkipUrlBody(s, i) ==
    IF i <= Len(s) /\ ~IsQuoteOrParen(s[i]) THEN SkipUrlBody(s, i + 1) ELSE i

\* re.findall(r'([^\s]+)\s*(?:\d+[wx])?,?', srcset), scanning from index i:
\* the group is the longest run of non-space atoms; then spaces, then an
\* optional descriptor (digits followed by w or x), then an optional comma
RECURSIVE FindSrcsetUrls(_, _)
FindSrcsetUrls(s, i) ==
    IF i > Len(s) THEN {}
    ELSE IF IsSpace(s[i]) THEN FindSrcsetUrls(s, i + 1)
    ELSE LET j == SkipNonSpace(s, i)
             k == SkipSpace(s, j)
             m == SkipDigits(s, k)
             d == IF m > k /\ m <= Len(s) /\ IsWX(s[m]) THEN m + 1 ELSE k
             e == IF d <= Len(s) /\ s[d] = "," THEN d + 1 ELSE d
         IN  {SubSeq(s, i, j - 1)} \cup FindSrcsetUrls(s, e)

\* re.findall(r'url\(["\']?([^"\')]+)', style), scanning from index i
RECURSIVE FindStyleUrls(_, _)
FindStyleUrls(s, i) ==
    IF i > Len(s) THEN {}
    ELSE IF s[i] # "url(" THEN FindStyleUrls(s, i + 1)
    ELSE LET q == IF i + 1 <= Len(s) /\ s[i + 1] \in {"'", "\""} THEN i + 2 ELSE i + 1
             j == SkipUrlBody(s, q)
         IN  IF j > q THEN {SubSeq(s, q, j - 1)} \cup FindStyleUrls(s, j)
             ELSE FindStyleUrls(s, i + 1)

\* lazy-loading attributes read from an <img>
LazyAttrs == {"data-src", "data-original", "data-lazy-src", "data-url", "data-lazysrc"}

\* the references one element of the snapshot contributes
ElementUrls(el) ==
    LET a == el.attrs
        has(n) == n \in DOMAIN a
        src == IF el.tag = "img" /\ has("src") /\ Len(a["src"]) > 0
               THEN {a["src"]} ELSE {}
        srcset == IF el.tag = "img" /\ has("srcset") /\ Len(a["srcset"]) > 0
                  THEN FindSrcsetUrls(a["srcset"], 1) ELSE {}
        lazy == IF el.tag = "img"
                THEN {a[n] : n \in LazyAttrs \cap DOMAIN a} ELSE {}
        style == IF has("style")
                    /\ \E i \in 1..Len(a["style"]) : a["style"][i] = "background-image:"
                 THEN FindStyleUrls(a["style"], 1) ELSE {}
    IN  src \cup srcset \cup lazy \cup style

\* extract_images_from_current_state(driver) on a snapshot (a set of elements)
extract_images_from_current_state(snapshot) ==
    UNION {ElementUrls(el) : el \in snapshot}

(***************************************************************************)
(* The pages of the model                                                  *)
(***************************************************************************)
\* sys.argv[1], the page URL
PageUrl == <<"https://", "ex.com", "/">>

RefA == <<"/", "a", ".png">>
AbsA == <<"https://", "ex.com", "/", "a", ".png">>
RefB == <<"/", "b", ".png">>
RefC == <<"/", "c", ".png">>
RefD == <<"/", "d", ".jpg">>
RefE == <<"e", ".png">>
RefSvg == <<"/", "logo", ".SVG">>
XSvg == <<"https://", "x.com", "/", "a", ".svg", "?x=1">>
RefData == <<"data:", "image/", "svg", "+xml", ",", "x">>

\* <img src="/a.png">
ElA == [tag |-> "img", attrs |-> [src |-> RefA]]
\* <img srcset="/b.png 1x, /c.png 2x">
ElBC == [tag |-> "img",
         attrs |-> [srcset |-> RefB \o <<" ", "1", "x", ",", " ">> \o RefC \o <<" ", "2", "x">>]]
\* <div style="background-image:url('/d.jpg')">
ElD == [tag |-> "div",
        attrs |-> [style |-> <<"background-image:", "url(", "'">> \o RefD \o <<"'", ")">>]]
\* <img src="https://ex.com/a.png" data-src="e.png">
ElAbsA == [tag |-> "img", attrs |-> ("src" :> AbsA @@ "data-src" :> RefE)]
\* <img src="/logo.SVG" data-original="https://x.com/a.svg?x=1">
ElSvg == [tag |-> "img", attrs |-> ("src" :> RefSvg @@ "data-original" :> XSvg)]
\* <img src="data:image/svg+xml,x">
ElData == [tag |-> "img", attrs |-> [src |-> RefData]]

\* the page of the spec's scenario
ScenarioDoc == {ElA, ElBC, ElD}
\* a page that names one image twice, a vector image and an inline image
MixedDoc == {ElA, ElAbsA, ElSvg, ElData}
Documents == {ScenarioDoc, MixedDoc}

\* every reference a page of the model can yield, and every resolved URL
AllRefs == UNION {extract_images_from_current_state(d) : d \in Documents}
AllUrls == {ResolveUrl(r, PageUrl) : r \in AllRefs}

\* Content-Type header values a server can send (<<>>: no header)
ContentTypes == {<<>>, <<"image/", "png">>, <<"image/", "svg", "+xml">>,
                 <<"image/", "SVG", "+xml">>}


(***************************************************************************)
(* State                                                                   *)
(***************************************************************************)
VARIABLES
    candidates,           \* history: the candidates the srcset under test was
                          \* written from (<<>> in a run of main)
    pc,                   \* the statement main is at
    exit_code,            \* the process exit status (-1 while running)
    driver,               \* the render surface: "none", "acquired", "released"
    argc,                 \* len(sys.argv)
    doc,                  \* the elements the page can show
    disk,                 \* save_dir: existing file path -> "partial" or "full"
    img_urls,             \* get_image_urls_from_page: the accumulated set
    last_height,          \* get_image_urls_from_page: last_height
    scroll_attempts,      \* get_image_urls_from_page: scroll_attempts
    scrolls,              \* history: scroll actions of the harvest so far
    growths,              \* history: scrolls after which the height had grown
    extracted,            \* history: every reference an extraction pass returned
    passes,               \* history: extraction passes of the harvest so far
    unsampled,            \* history: a scroll happened after the last pass
    stop_test,            \* history: the last stop test, <<height unchanged,
                          \* bottom reached>> (<<>> when a pass followed it)
    timed_out,            \* history: a wait of the harvest timed out
    content_type_seen,    \* content_type of download_image: the header value the
                          \* last probe or retrieval of the call returned
    pending,              \* main: elements the for loop has not visited yet
    img_url,              \* main: the loop variable
    url,                  \* download_image: url after resolution
    successful_downloads, \* main: successful_downloads
    heads,                \* history: HEAD requests issued per URL
    gets,                 \* history: GET requests issued per URL
    gets_ok,              \* history: GET requests that returned a success status
    raised,               \* history: what raised in the current or last call of
                          \* download_image ("none" if nothing did)
    calls,                \* history: download_image calls per reference
    outcome               \* history: how the last call of download_image ended
                          \* ("none" before the first call and during a call)

vars == <<candidates, pc, exit_code, driver, argc, doc, disk, img_urls, last_height,
          scroll_attempts,
          scrolls, growths, extracted, passes, unsampled, stop_test, timed_out,
          pending, img_url, url, content_type_seen,
          successful_downloads, heads, gets, gets_ok, raised, calls, outcome>>

inputVars == <<argc, doc, candidates>>
harvestHistory == <<passes, unsampled, stop_test, timed_out>>
harvestVars == <<img_urls, last_height, scroll_attempts, scrolls, growths, extracted,
                 harvestHistory>>
fetchVars == <<pending, img_url, url, successful_downloads, heads, gets, gets_ok,
               raised, calls, outcome, disk, content_type_seen>>

\* no string: the value of a local that is not set
NoUrl == <<>>

\* the statements of get_image_urls_from_page
HarvestPcs == {"clear", "wait", "read_height", "loop", "scroll", "measure", "final", "return"}
\* the statements of download_image
DownloadPcs == {"dl_classify", "dl_head", "dl_exists", "dl_get", "dl_open", "dl_write"}

\* directories left by earlier runs: empty, or holding the file of one image
InitialDisks == {<<>>, FilePath(AbsA) :> "full"}

Init ==
    /\ pc = "main"
    /\ exit_code = -1
    /\ driver = "none"
    /\ argc \in 1..MaxArgc
    /\ doc \in Documents
    /\ candidates = <<>>
    /\ disk \in InitialDisks
    /\ img_urls = {}
    /\ last_height = 0
    /\ scroll_attempts = 0
    /\ scrolls = 0
    /\ growths = 0
    /\ extracted = {}
    /\ passes = 0
    /\ unsampled = FALSE
    /\ stop_test = <<>>
    /\ timed_out = FALSE
    /\ pending = {}
    /\ img_url = NoUrl
    /\ url = NoUrl
    /\ successful_downloads = 0
    /\ heads = [u \in AllUrls |-> 0]
    /\ gets = [u \in AllUrls |-> 0]
    /\ gets_ok = [u \in AllUrls |-> 0]
    /\ raised = "none"
    /\ content_type_seen = <<>>
    /\ calls = [r \in AllRefs |-> 0]
    /\ outcome = "none"

(***************************************************************************)
(* main, up to the end of harvesting                                       *)
(***************************************************************************)
\* a faulty main: the usage message is printed without sys.exit(1)
UsageIgnored ==
    /\ pc = "main"
    /\ argc # 2
    /\ pc' = "exit"
    /\ exit_code' = 0
    /\ UNCHANGED <<driver, inputVars, harvestVars, fetchVars>>

\* if len(sys.argv) != 2: print usage; sys.exit(1)
UsageExit ==
    /\ pc = "main"
    /\ argc # 2
    /\ pc' = "exit"
    /\ exit_code' = 1
    /\ UNCHANGED <<driver, inputVars, harvestVars, fetchVars>>

\* driver = setup_driver()
SetupDriver ==
    /\ pc = "main"
    /\ argc = 2
    /\ driver' = "acquired"
    /\ pc' = "clear"
    /\ UNCHANGED <<exit_code, inputVars, harvestVars, fetchVars>>

\* setup_driver() raises before a surface exists: except, sys.exit(1)
SetupDriverFails ==
    /\ pc = "main"
    /\ argc = 2
    /\ pc' = "exit"
    /\ exit_code' = 1
    /\ UNCHANGED <<driver, inputVars, harvestVars, fetchVars>>

\* clear cookies and cache, driver.get(url)
ClearAndLoad ==
    /\ pc = "clear"
    /\ pc' = "wait"
    /\ UNCHANGED <<exit_code, driver, inputVars, harvestVars, fetchVars>>

\* a faulty harvest: the waits are not in a try block, a timeout ends main
WaitForPageAborts ==
    /\ pc = "wait"
    /\ \E t \in BOOLEAN :
          /\ timed_out' = t
          /\ pc' = IF t THEN "exit" ELSE "read_height"
          /\ exit_code' = IF t THEN 1 ELSE exit_code
    /\ UNCHANGED <<driver, inputVars, img_urls, last_height, scroll_attempts,
                   scrolls, growths, extracted, passes, unsampled, stop_test, fetchVars>>

\* the try block of the waits (body, cookie button, img, sleep): a timeout
\* is caught and printed, and the function goes on
WaitForPage ==
    /\ pc = "wait"
    /\ \E t \in BOOLEAN : timed_out' = t
    /\ pc' = "read_height"
    /\ UNCHANGED <<exit_code, driver, inputVars, img_urls, last_height, scroll_attempts,
                   scrolls, growths, extracted, passes, unsampled, stop_test, fetchVars>>

\* img_urls = set(); last_height = scrollHeight; scroll_attempts = 0
ReadInitialHeight ==
    /\ pc = "read_height"
    /\ \E h \in 1..MaxHeight : last_height' = h
    /\ img_urls' = {}
    /\ scroll_attempts' = 0
    /\ pc' = "loop"
    /\ UNCHANGED <<exit_code, driver, inputVars, scrolls, growths, extracted,
                   harvestHistory, fetchVars>>

\* while scroll_attempts < max_scroll_attempts: the loop condition
LoopContinues == scroll_attempts < max_scroll_attempts

\* a faulty update: the set is replaced by the last pass
AccumulateReplacing(acc, new_urls) == new_urls

\* img_urls.update(new_urls)
Accumulate(acc, new_urls) == acc \cup new_urls

\* new_urls = extract(...); img_urls.update(new_urls)
ExtractPass ==
    /\ pc = "loop"
    /\ LoopContinues
    /\ \E snapshot \in SUBSET doc :
          LET new_urls == extract_images_from_current_state(snapshot)
          IN  /\ img_urls' = Accumulate(img_urls, new_urls)
              /\ extracted' = extracted \cup new_urls
    /\ passes' = passes + 1
    /\ unsampled' = FALSE
    /\ stop_test' = <<>>
    /\ pc' = "scroll"
    /\ UNCHANGED <<exit_code, driver, inputVars, last_height, scroll_attempts, scrolls,
                   growths, timed_out, fetchVars>>

\* the loop condition is false: fall out of the while
LoopExhausted ==
    /\ pc = "loop"
    /\ ~LoopContinues
    /\ pc' = "return"
    /\ UNCHANGED <<exit_code, driver, inputVars, harvestVars, fetchVars>>

\* window.scrollBy(0, innerHeight * 0.8); time.sleep(scroll_pause_time)
Scroll ==
    /\ pc = "scroll"
    /\ scrolls' = scrolls + 1
    /\ unsampled' = TRUE
    /\ pc' = "measure"
    /\ UNCHANGED <<exit_code, driver, inputVars, img_urls, last_height, scroll_attempts,
                   growths, extracted, passes, stop_test, timed_out, fetchVars>>

\* a faulty stop test: one of the two conditions is enough
AtBottomEither(new_height, current_position, inner_height) ==
    new_height = last_height \/ current_position + inner_height >= new_height

\* the stopping condition of the scroll loop
AtBottom(new_height, current_position, inner_height) ==
    new_height = last_height /\ current_position + inner_height >= new_height

\* a faulty loop: an attempt is not counted when the page has grown
NextAttemptUncounted(new_height) ==
    /\ last_height' = new_height
    /\ scroll_attempts' = IF new_height > last_height THEN scroll_attempts
                          ELSE scroll_attempts + 1

\* what the loop does after the heights are read and the stop test failed
NextAttempt(new_height) ==
    /\ last_height' = new_height
    /\ scroll_attempts' = scroll_attempts + 1

\* new_height, current_position, innerHeight are read; break or go on
ReadHeights ==
    /\ pc = "measure"
    /\ \E new_height \in 1..MaxHeight, current_position \in 0..MaxOffset,
          inner_height \in 1..MaxViewport :
          /\ growths' = IF new_height > last_height THEN growths + 1 ELSE growths
          /\ stop_test' = <<new_height = last_height,
                            current_position + inner_height >= new_height>>
          /\ IF AtBottom(new_height, current_position, inner_height)
             THEN /\ pc' = "final"
                  /\ UNCHANGED <<last_height, scroll_attempts>>
             ELSE /\ pc' = "loop"
                  /\ NextAttempt(new_height)
    /\ UNCHANGED <<exit_code, driver, inputVars, img_urls, scrolls, extracted, passes,
                   unsampled, timed_out, fetchVars>>

\* time.sleep(2); final_urls = extract(...); img_urls.update(final_urls); break
FinalExtract ==
    /\ pc = "final"
    /\ \E snapshot \in SUBSET doc :
          LET final_urls == extract_images_from_current_state(snapshot)
          IN  /\ img_urls' = Accumulate(img_urls, final_urls)
              /\ extracted' = extracted \cup final_urls
    /\ passes' = passes + 1
    /\ unsampled' = FALSE
    /\ pc' = "return"
    /\ UNCHANGED <<exit_code, driver, inputVars, last_height, scroll_attempts, scrolls,
                   growths, stop_test, timed_out, fetchVars>>

\* the debug prints; return img_urls: the locals of the function and the
\* history of the harvest end here
HarvestReturn ==
    /\ pc = "return"
    /\ pc' = "quit"
    /\ last_height' = 0
    /\ scroll_attempts' = 0
    /\ scrolls' = 0
    /\ growths' = 0
    /\ passes' = 0
    /\ unsampled' = FALSE
    /\ stop_test' = <<>>
    /\ timed_out' = FALSE
    /\ UNCHANGED <<exit_code, driver, inputVars, img_urls, extracted, fetchVars>>

\* the statements of get_image_urls_from_page whose driver calls are outside
\* its try block
RaisingPcs == HarvestPcs \ {"wait"}

\* a driver call of get_image_urls_from_page raises: main's except, sys.exit(1)
HarvestRaises ==
    /\ pc \in RaisingPcs
    /\ pc' = "exit"
    /\ exit_code' = 1
    /\ UNCHANGED <<driver, inputVars, harvestVars, fetchVars>>

\* a faulty main: the fetch loop starts with the surface still held
DriverNotQuit ==
    /\ pc = "quit"
    /\ pending' = img_urls
    /\ pc' = "fetch"
    /\ UNCHANGED <<exit_code, driver, inputVars, harvestVars, img_url, url,
                   successful_downloads, heads, gets, gets_ok, raised, calls, outcome, disk,
                   content_type_seen>>

\* driver.quit(); print; the for loop starts to iterate img_urls
DriverQuit ==
    /\ pc = "quit"
    /\ driver' = "released"
    /\ pending' = img_urls
    /\ pc' = "fetch"
    /\ UNCHANGED <<exit_code, inputVars, harvestVars, img_url, url, successful_downloads,
                   heads, gets, gets_ok, raised, calls, outcome, disk, content_type_seen>>

(***************************************************************************)
(* The fetch loop of main and download_image                               *)
(***************************************************************************)
\* for img_url in img_urls: download_image(img_url, url, save_dir) is called
FetchNext ==
    /\ pc = "fetch"
    /\ \E r \in pending :
          /\ pending' = pending \ {r}
          /\ img_url' = r
          /\ calls' = [calls EXCEPT ![r] = @ + 1]
    /\ raised' = "none"
    /\ outcome' = "none"
    /\ content_type_seen' = <<>>
    /\ pc' = "dl_classify"
    /\ UNCHANGED <<exit_code, driver, inputVars, harvestVars, url, successful_downloads,
                   heads, gets, gets_ok, disk>>

\* download_image returns to the loop: a path counts as a successful download
ReturnToLoop(path_returned, how) ==
    /\ outcome' = how
    /\ successful_downloads' =
          IF path_returned THEN successful_downloads + 1 ELSE successful_downloads
    /\ img_url' = img_url
    /\ url' = NoUrl
    /\ pc' = "fetch"
    /\ exit_code' = exit_code

\* a faulty download_image: the exception is not caught and ends main
ExceptPropagates(what) ==
    /\ raised' = what
    /\ outcome' = "failed"
    /\ pc' = "exit"
    /\ exit_code' = 1
    /\ UNCHANGED <<img_url, url, successful_downloads>>

\* an exception reaches the except clause of download_image: print, return None
ExceptReturnsNone(what) ==
    /\ raised' = what
    /\ ReturnToLoop(FALSE, "failed")

\* a faulty download_image: the SVG test is made before the data: test
ClassifySvgFirst ==
    /\ pc = "dl_classify"
    /\ LET u == ResolveUrl(img_url, PageUrl)
       IN  IF is_svg_image(u, <<>>)
           THEN ReturnToLoop(FALSE, "skipped_vector")
           ELSE IF StartsWith(u, {"data:"})
           THEN ReturnToLoop(FALSE, "skipped_data")
           ELSE /\ url' = u
                /\ pc' = "dl_head"
                /\ UNCHANGED <<exit_code, img_url, successful_downloads, outcome>>
    /\ UNCHANGED <<driver, inputVars, harvestVars, pending, heads, gets, gets_ok, raised,
                   calls, disk, content_type_seen>>

\* resolve a relative URL; skip data URLs and URLs that look like SVG
Classify ==
    /\ pc = "dl_classify"
    /\ LET u == ResolveUrl(img_url, PageUrl)
       IN  IF StartsWith(u, {"data:"})
           THEN ReturnToLoop(FALSE, "skipped_data")
           ELSE IF is_svg_image(u, <<>>)
           THEN ReturnToLoop(FALSE, "skipped_vector")
           ELSE /\ url' = u
                /\ pc' = "dl_head"
                /\ UNCHANGED <<exit_code, img_url, successful_downloads, outcome>>
    /\ UNCHANGED <<driver, inputVars, harvestVars, pending, heads, gets, gets_ok, raised,
                   calls, disk, content_type_seen>>

\* a faulty download_image: a failed probe is handled like a failed retrieval
HeadProbeFatal ==
    /\ pc = "dl_head"
    /\ heads' = [heads EXCEPT ![url] = @ + 1]
    /\ \/ /\ ExceptReturnsNone("head")
          /\ content_type_seen' = content_type_seen
       \/ \E content_type \in ContentTypes :
             /\ raised' = raised
             /\ content_type_seen' = content_type
             /\ IF is_svg_image(url, content_type)
                THEN ReturnToLoop(FALSE, "skipped_vector")
                ELSE /\ pc' = "dl_exists"
                     /\ UNCHANGED <<exit_code, img_url, url, successful_downloads,
                                    outcome>>
    /\ UNCHANGED <<driver, inputVars, harvestVars, pending, gets, gets_ok, calls, disk>>

\* requests.head(url): a failure is swallowed, an SVG content type ends the call
HeadProbe ==
    /\ pc = "dl_head"
    /\ heads' = [heads EXCEPT ![url] = @ + 1]
    /\ \/ /\ raised' = "head"
          /\ pc' = "dl_exists"
          /\ UNCHANGED <<exit_code, img_url, url, successful_downloads, outcome,
                         content_type_seen>>
       \/ \E content_type \in ContentTypes :
             /\ raised' = raised
             /\ content_type_seen' = content_type
             /\ IF is_svg_image(url, content_type)
                THEN ReturnToLoop(FALSE, "skipped_vector")
                ELSE /\ pc' = "dl_exists"
                     /\ UNCHANGED <<exit_code, img_url, url, successful_downloads,
                                    outcome>>
    /\ UNCHANGED <<driver, inputVars, harvestVars, pending, gets, gets_ok, calls, disk>>

\* a faulty download_image: the file is fetched whether it exists or not
CheckExistsIgnored ==
    /\ pc = "dl_exists"
    /\ pc' = "dl_get"
    /\ UNCHANGED <<exit_code, img_url, url, successful_downloads, outcome>>
    /\ UNCHANGED <<driver, inputVars, harvestVars, pending, heads, gets, gets_ok, raised,
                   calls, disk, content_type_seen>>

\* filepath is computed; if not os.path.exists(filepath): ... else fall off the
\* end of the function (None)
CheckExists ==
    /\ pc = "dl_exists"
    /\ IF FilePath(url) \in DOMAIN disk
       THEN ReturnToLoop(FALSE, "skipped_on_disk")
       ELSE /\ pc' = "dl_get"
            /\ UNCHANGED <<exit_code, img_url, url, successful_downloads, outcome>>
    /\ UNCHANGED <<driver, inputVars, harvestVars, pending, heads, gets, gets_ok, raised,
                   calls, disk, content_type_seen>>

\* a faulty download_image: the response's content type is not looked at
GetImageNoFinalCheck ==
    /\ pc = "dl_get"
    /\ gets' = [gets EXCEPT ![url] = @ + 1]
    /\ \/ /\ ExceptReturnsNone("get")
          /\ gets_ok' = gets_ok
          /\ content_type_seen' = content_type_seen
       \/ \E content_type \in ContentTypes :
             /\ gets_ok' = [gets_ok EXCEPT ![url] = @ + 1]
             /\ raised' = raised
             /\ content_type_seen' = content_type
             /\ pc' = "dl_open"
             /\ UNCHANGED <<exit_code, img_url, url, successful_downloads, outcome>>
    /\ UNCHANGED <<driver, inputVars, harvestVars, pending, heads, calls, disk>>

\* requests.get(url); raise_for_status(); the final content-type check
GetImage ==
    /\ pc = "dl_get"
    /\ gets' = [gets EXCEPT ![url] = @ + 1]
    /\ \/ /\ ExceptReturnsNone("get")
          /\ gets_ok' = gets_ok
          /\ content_type_seen' = content_type_seen
       \/ \E content_type \in ContentTypes :
             /\ gets_ok' = [gets_ok EXCEPT ![url] = @ + 1]
             /\ raised' = raised
             /\ content_type_seen' = content_type
             /\ IF is_svg_image(url, content_type)
                THEN ReturnToLoop(FALSE, "skipped_vector")
                ELSE /\ pc' = "dl_open"
                     /\ UNCHANGED <<exit_code, img_url, url, successful_downloads,
                                    outcome>>
    /\ UNCHANGED <<driver, inputVars, harvestVars, pending, heads, calls, disk>>

\* open(filepath, "wb"): creates (or truncates) the file, or raises
OpenFile ==
    /\ pc = "dl_open"
    /\ \/ /\ ExceptReturnsNone("open")
          /\ disk' = disk
       \/ /\ disk' = (FilePath(url) :> "partial") @@ disk
          /\ pc' = "dl_write"
          /\ UNCHANGED <<exit_code, img_url, url, successful_downloads, outcome, raised>>
    /\ UNCHANGED <<driver, inputVars, harvestVars, pending, heads, gets, gets_ok, calls,
                   content_type_seen>>

\* f.write(response.content), close; return filepath; or the write raises
WriteFile ==
    /\ pc = "dl_write"
    /\ \/ /\ ExceptReturnsNone("write")
          /\ disk' = disk
       \/ /\ disk' = (FilePath(url) :> "full") @@ disk
          /\ raised' = raised
          /\ ReturnToLoop(TRUE, "saved")
    /\ UNCHANGED <<driver, inputVars, harvestVars, pending, heads, gets, gets_ok, calls,
                   content_type_seen>>

\* a faulty main: the status tells whether every download succeeded
SummaryCountsFailures ==
    /\ pc = "fetch"
    /\ pending = {}
    /\ pc' = "exit"
    /\ exit_code' = IF successful_downloads < Cardinality(img_urls) THEN 1 ELSE 0
    /\ UNCHANGED <<driver, inputVars, harvestVars, fetchVars>>

\* the loop is over: print the summary; the process ends with status 0
Summary ==
    /\ pc = "fetch"
    /\ pending = {}
    /\ pc' = "exit"
    /\ exit_code' = 0
    /\ UNCHANGED <<driver, inputVars, harvestVars, fetchVars>>

Next ==
    \/ UsageExit
    \/ SetupDriver
    \/ SetupDriverFails
    \/ ClearAndLoad
    \/ WaitForPage
    \/ ReadInitialHeight
    \/ ExtractPass
    \/ LoopExhausted
    \/ Scroll
    \/ ReadHeights
    \/ FinalExtract
    \/ HarvestReturn
    \/ HarvestRaises
    \/ DriverQuit
    \/ FetchNext
    \/ Classify
    \/ HeadProbe
    \/ CheckExists
    \/ GetImage
    \/ OpenFile
    \/ WriteFile
    \/ Summary

Spec == Init /\ [][Next]_vars

(***************************************************************************)
(* extract_images_from_current_state on one <img srcset=...>               *)
(***************************************************************************)
\* the longest candidate list of a srcset under test
MaxCandidates == 2

\* descriptors of a candidate: none, 1x, 2x, 1.5x, 480w
Descriptors == {<<>>, <<"1", "x">>, <<"2", "x">>, <<"1", ".", "5", "x">>, <<"480", "w">>}

\* what is written after a candidate that is not the last: "," or ", "
Separators == {<<",">>, <<",", " ">>}

\* candidate lists: a URL, its descriptor and the separator after it
CandidateLists ==
    UNION {[1..n -> [url : {RefB, RefC}, descriptor : Descriptors, sep : Separators]]
              : n \in 1..MaxCandidates}

\* the text of candidate i of list c, with its separator if another follows
CandidateText(c, i) ==
    c[i].url
      \o (IF c[i].descriptor = <<>> THEN <<>> ELSE <<" ">> \o c[i].descriptor)
      \o (IF i < Len(c) THEN c[i].sep ELSE <<>>)

\* the value of the srcset attribute written from the candidates i.. of c
RECURSIVE SrcsetText(_, _)
SrcsetText(c, i) ==
    IF i > Len(c) THEN <<>> ELSE CandidateText(c, i) \o SrcsetText(c, i + 1)

\* the snapshot <img srcset="...">
SrcsetDoc(c) == {[tag |-> "img", attrs |-> [srcset |-> SrcsetText(c, 1)]]}

SrcsetInit ==
    /\ pc = "srcset"
    /\ candidates \in CandidateLists
    /\ doc = SrcsetDoc(candidates)
    /\ exit_code = -1
    /\ driver = "acquired"
    /\ argc = 2
    /\ disk = <<>>
    /\ img_urls = {}
    /\ last_height = 0
    /\ scroll_attempts = 0
    /\ scrolls = 0
    /\ growths = 0
    /\ extracted = {}
    /\ passes = 0
    /\ unsampled = FALSE
    /\ stop_test = <<>>
    /\ timed_out = FALSE
    /\ pending = {}
    /\ img_url = NoUrl
    /\ url = NoUrl
    /\ successful_downloads = 0
    /\ heads = [u \in AllUrls |-> 0]
    /\ gets = [u \in AllUrls |-> 0]
    /\ gets_ok = [u \in AllUrls |-> 0]
    /\ raised = "none"
    /\ content_type_seen = <<>>
    /\ calls = [r \in AllRefs |-> 0]
    /\ outcome = "none"

\* one call of extract_images_from_current_state on the snapshot
ExtractSrcset ==
    /\ pc = "srcset"
    /\ extracted' = extract_images_from_current_state(doc)
    /\ passes' = passes + 1
    /\ pc' = "srcset_done"
    /\ UNCHANGED <<exit_code, driver, inputVars, img_urls, last_height, scroll_attempts,
                   scrolls, growths, unsampled, stop_test, timed_out, fetchVars>>

SrcsetNext == ExtractSrcset

SrcsetSpec == SrcsetInit /\ [][SrcsetNext]_vars

\* main is one sequential thread: a statement that can run does run
FairSpec == Spec /\ WF_vars(Next)

TypeOK ==
    /\ pc \in {"main", "quit", "fetch", "exit"} \cup HarvestPcs \cup DownloadPcs
    /\ exit_code \in {-1, 0, 1}
    /\ driver \in {"none", "acquired", "released"}
    /\ img_urls \subseteq AllRefs
    /\ pending \subseteq img_urls
    /\ scroll_attempts \in 0..max_scroll_attempts

(***************************************************************************)
(* Properties of the harvest                                               *)
(***************************************************************************)
\* C1: whatever heights and offsets the page reports, the scroll loop of
\* get_image_urls_from_page performs at most 5 scroll actions, every run of
\* it ends (the function returns or a driver call raises), and the set it
\* returns is the union of what the extraction passes found.
C1_BoundedScrollLoop ==
    /\ [](scrolls <= max_scroll_attempts)
    /\ [](pc = "return" => img_urls = extracted)
    /\ [](pc = "read_height" => <>(pc \notin HarvestPcs))

\* C1 witness: the function returns after 5 scrolls, the height having grown
\* after every one of them
C1_Witness ==
    /\ pc = "return"
    /\ scrolls = max_scroll_attempts
    /\ growths = max_scroll_attempts
    /\ img_urls # {}

\* C2: the accumulated set never loses an element: each step of a run keeps
\* every reference the set holds, up to and after the return of the harvest.
C2_NeverShrinks == [][img_urls \subseteq img_urls']_vars

\* C2 witness: the harvest returns after several passes with several references
C2_Witness ==
    /\ pc = "return"
    /\ scroll_attempts >= 2
    /\ Cardinality(img_urls) >= 2

\* the absolute URLs of the scenario page
ScenarioUrls ==
    {<<"https://", "ex.com", "/", "a", ".png">>, <<"https://", "ex.com", "/", "b", ".png">>,
     <<"https://", "ex.com", "/", "c", ".png">>, <<"https://", "ex.com", "/", "d", ".jpg">>}

\* C3 (as claimed): the returned set holds exactly the resolutions of the
\* extracted references against the page URL; for the scenario page, fully
\* extracted, it is the 4 absolute URLs.
C3_HarvestIsResolved ==
    pc = "return" =>
        /\ img_urls = {ResolveUrl(r, PageUrl) : r \in extracted}
        /\ (doc = ScenarioDoc /\ extracted = extract_images_from_current_state(ScenarioDoc)
                => img_urls = ScenarioUrls)

(***************************************************************************)
(* Properties of the fetch loop                                            *)
(***************************************************************************)
\* the URL the current (or last) call of download_image works on
CurrentUrl == ResolveUrl(img_url, PageUrl)

\* the file of the current URL is in the directory
CurrentFileExists == FilePath(CurrentUrl) \in DOMAIN disk

\* the number of download_image calls made so far for references of URL u
Invocations(u) == Cardinality({r \in AllRefs : ResolveUrl(r, PageUrl) = u /\ calls[r] >= 1})

\* the statements of download_image that precede the retrieval
BeforeGetPcs == {"dl_classify", "dl_head", "dl_exists"}

\* C4 (as claimed): two calls of download_image for one URL make at most one
\* successful GET in total, and the second call issues no GET, whatever
\* happened to the first retrieval.
C4_FetchIdempotent ==
    \A u \in AllUrls :
        Invocations(u) <= 2 =>
            /\ gets_ok[u] <= 1
            /\ (pc = "fetch" /\ Invocations(u) = 2 /\ CurrentUrl = u => gets[u] <= 1)

\* C4 (amended): once a file is stored under a URL's name, no later step
\* issues a GET for that URL or changes the stored file, and a call that
\* reaches the existence test ends as skipped-on-disk.
C4_NoRefetchOnceStored ==
    [][(/\ \A u \in AllUrls :
             (FilePath(u) \in DOMAIN disk /\ disk[FilePath(u)] = "full")
                => (/\ gets'[u] = gets[u]
                    /\ FilePath(u) \in DOMAIN disk'
                    /\ disk'[FilePath(u)] = "full")
        /\ \A u \in AllUrls : gets'[u] # gets[u] => FilePath(u) \notin DOMAIN disk
        /\ (pc = "dl_exists" /\ CurrentFileExists)
              => (pc' = "fetch" /\ outcome' = "skipped_on_disk"))]_vars

\* C4 witness: the second call for a URL whose first call fetched and saved
\* it has ended as skipped-on-disk, one GET in all
C4_Witness ==
    /\ pc = "fetch"
    /\ Invocations(AbsA) = 2
    /\ outcome = "skipped_on_disk"
    /\ gets[AbsA] = 1
    /\ gets_ok[AbsA] = 1
    /\ disk[FilePath(AbsA)] = "full"

\* C5 (as claimed): a call of download_image in which a request or the
\* write raised, the probe included, ends as a failure.
C5_EveryErrorIsFailure ==
    [][(pc \in DownloadPcs /\ pc' = "fetch" /\ raised' # "none")
          => outcome' = "failed"]_vars

\* what a step of download_image may do
C5_CallStep ==
    /\ pc' \in DownloadPcs \cup {"fetch"}
    /\ pending' = pending
    /\ calls' = calls
    /\ (pc' = "fetch" /\ raised' \in {"get", "open", "write"}
           => outcome' = "failed" /\ successful_downloads' = successful_downloads)
    /\ \A u \in AllUrls \ {CurrentUrl} :
          /\ heads'[u] = heads[u]
          /\ gets'[u] = gets[u]
          /\ (FilePath(u) \in DOMAIN disk <=> FilePath(u) \in DOMAIN disk')
          /\ (FilePath(u) \in DOMAIN disk => disk'[FilePath(u)] = disk[FilePath(u)])

\* C5 (amended): an error raised by the retrieval, the open or the write ends
\* the call as a failure and stays inside the call: the loop goes on, each
\* element of the harvested set is visited exactly once, and a call touches
\* no file, no counter and no loop state of another URL.  (An error raised
\* by the probe is swallowed and the call proceeds.)
C5_Isolation ==
    /\ [][(pc \in DownloadPcs) => C5_CallStep]_vars
    /\ [](\A r \in AllRefs : calls[r] <= 1)
    /\ [](pc = "exit" /\ exit_code = 0 => \A r \in img_urls : calls[r] = 1)

\* C5 witness: the run ends normally after a batch in which the retrieval of
\* one URL raised and another URL was fetched and saved
C5_Witness ==
    /\ pc = "exit"
    /\ exit_code = 0
    /\ \E u, v \in AllUrls :
          /\ u # v
          /\ gets[u] = 1 /\ gets_ok[u] = 0
          /\ gets_ok[v] = 1 /\ FilePath(v) \in DOMAIN disk /\ disk[FilePath(v)] = "full"
    /\ successful_downloads >= 1

\* C6 (as claimed): in one run at most one GET is issued per resolved URL.
C6_OneGetPerUrl == \A u \in AllUrls : gets[u] <= 1

\* C7 (as claimed): a run that acquired the render surface does not end
\* without having released it.
C7_SurfaceReleased == pc = "exit" => driver \in {"none", "released"}

\* a HEAD or a GET has been issued
AnyRequest == \E u \in AllUrls : heads[u] > 0 \/ gets[u] > 0

\* C8: harvesting runs with the surface held and before any request; the
\* fetch loop runs with the surface released; the summary is reached only
\* after the loop; the harvested set does not change once harvesting is over.
C8_RunOrder ==
    /\ [](pc \in HarvestPcs \cup {"quit"} => driver = "acquired" /\ ~AnyRequest)
    /\ [](AnyRequest => driver = "released")
    /\ [](pc \in DownloadPcs \cup {"fetch"} => driver = "released")
    /\ [](exit_code = 0 => driver = "released" /\ pending = {})
    /\ [][(pc \in DownloadPcs \cup {"quit", "fetch", "exit"}) => img_urls' = img_urls]_vars

\* C8 witness: the run ends normally after requests were issued
C8_Witness ==
    /\ pc = "exit"
    /\ exit_code = 0
    /\ \E u \in AllUrls : heads[u] > 0 /\ gets[u] > 0

\* the shape of a URL that is never fetched: a data: URL, or a URL that
\* contains "svg" in any case
ShapeSkipped(u) ==
    \/ Len(u) > 0 /\ u[1] = "data:"
    \/ \E i \in 1..Len(u) : u[i] \in {"svg", "SVG", ".svg", ".SVG"}

\* C9: no HEAD and no GET is ever issued, and no file is ever written, for
\* a URL that is data-embedded or vector-excluded by its shape.
C9_NoRequestForSkippedShapes ==
    \A r \in AllRefs :
        LET u == ResolveUrl(r, PageUrl)
        IN  ShapeSkipped(u)
               => heads[u] = 0 /\ gets[u] = 0 /\ FilePath(u) \notin DOMAIN disk

\* C9 witness: the loop has called download_image for a data: URL and for
\* an SVG URL
C9_Witness ==
    /\ pc = "fetch"
    /\ calls[RefData] = 1
    /\ calls[RefSvg] = 1
    /\ pending = {}

\* C10 (as claimed): a call for a URL whose file exists issues no request at
\* all and ends as skipped-on-disk.
C10_ExistingFileNoNetwork ==
    [][(pc \in BeforeGetPcs /\ CurrentFileExists)
          => (/\ heads' = heads
              /\ gets' = gets
              /\ (pc' = "fetch" => outcome' = "skipped_on_disk"))]_vars

\* C10 (amended): a call for a URL whose file exists issues the header
\* probe, but no GET, and writes nothing; it ends as skipped-on-disk, or as
\* skipped-vector when the probe reports SVG.
C10_ExistingFileNoRetrieval ==
    [][(pc \in BeforeGetPcs /\ CurrentFileExists)
          => (/\ gets' = gets
              /\ disk' = disk
              /\ successful_downloads' = successful_downloads
              /\ pc' \in {"dl_head", "dl_exists", "fetch"}
              /\ (pc = "dl_head" => heads'[url] = heads[url] + 1)
              /\ (pc' = "fetch" => outcome' \in {"skipped_on_disk", "skipped_vector"})
              /\ (pc' = "fetch" /\ outcome' = "skipped_vector" => pc = "dl_head"))]_vars

\* C10 witness: a call for a URL whose file was in the directory before the
\* run has ended as skipped-on-disk after a probe and without a GET
C10_Witness ==
    /\ pc = "fetch"
    /\ outcome = "skipped_on_disk"
    /\ CurrentUrl = AbsA
    /\ heads[AbsA] = 1
    /\ gets[AbsA] = 0
    /\ disk[FilePath(AbsA)] = "full"

(***************************************************************************)
(* Exit status                                                             *)
(***************************************************************************)
\* a GET that raised or returned an error status has happened
SomeFetchFailed == \E u \in AllUrls : gets[u] > gets_ok[u]

\* C11: a run that ended has status 0 exactly when there were two arguments,
\* the surface was acquired and the harvest returned (the surface is then
\* released and the loop done), whatever fetches failed; a wrong argument
\* count and a failure of setup_driver end with a non-zero status.
C11_ExitStatus ==
    pc = "exit" =>
        /\ exit_code \in {0, 1}
        /\ (exit_code = 0 <=> (argc = 2 /\ driver = "released"))
        /\ (argc # 2 => exit_code = 1)
        /\ (driver = "none" => exit_code = 1)

\* C11 witness: status 0 after a run in which a fetch failed and nothing
\* was downloaded
C11_Witness ==
    /\ pc = "exit"
    /\ exit_code = 0
    /\ SomeFetchFailed
    /\ successful_downloads = 0
    /\ img_urls # {}

(***************************************************************************)
(* Classification                                                          *)
(***************************************************************************)
\* a URL of the data: scheme
IsDataUrl(u) == Len(u) > 0 /\ u[1] = "data:"

\* what the first statements of download_image may do
C12_ClassifyStep ==
    /\ (IsDataUrl(CurrentUrl) => pc' = "fetch" /\ outcome' = "skipped_data")
    /\ (~IsDataUrl(CurrentUrl) /\ ShapeSkipped(CurrentUrl)
           => pc' = "fetch" /\ outcome' = "skipped_vector")
    /\ (~IsDataUrl(CurrentUrl) /\ ~ShapeSkipped(CurrentUrl) => pc' = "dl_head")
    /\ (img_url = RefData => outcome' = "skipped_data")
    /\ (img_url = XSvg => outcome' = "skipped_vector")

\* C12: download_image classifies a data: URL as data-embedded also when it
\* contains "svg", and a URL that is not data: and contains "svg" as
\* vector-excluded; the later classification points (probe, response) are
\* reached by neither, so no data: URL ever ends as vector-excluded.
C12_Precedence ==
    /\ [][(pc = "dl_classify") => C12_ClassifyStep]_vars
    /\ [](pc \in DownloadPcs \ {"dl_classify"} => ~IsDataUrl(url) /\ ~ShapeSkipped(url))
    /\ [](pc = "fetch" /\ outcome = "skipped_vector" => ~IsDataUrl(CurrentUrl))
    /\ [](pc = "fetch" /\ outcome = "skipped_data" => IsDataUrl(CurrentUrl))

\* C12 witness: the calls for data:image/svg+xml,x and for
\* https://x.com/a.svg?x=1 are over, the data: one last
C12_Witness ==
    /\ pc = "fetch"
    /\ calls[XSvg] = 1
    /\ img_url = RefData
    /\ is_svg_image(RefData, <<>>)
    /\ outcome = "skipped_data"

\* the step that evaluates the stop test, when no driver call raises
C13_MeasureStep ==
    pc' # "exit" =>
        /\ Len(stop_test') = 2
        /\ (pc' = "final" <=> (stop_test'[1] /\ stop_test'[2]))
        /\ (pc' = "loop" <=> ~(stop_test'[1] /\ stop_test'[2]))
        /\ scrolls' = scrolls
        /\ passes' = passes

\* the step after the loop has stopped, when no driver call raises
C13_FinalStep ==
    pc' # "exit" =>
        /\ pc' = "return"
        /\ passes' = passes + 1
        /\ scrolls' = scrolls

C16_TimeoutsNotFatal ==
    /\ [][(pc = "wait") => (pc' = "read_height" /\ exit_code' = exit_code)]_vars
    /\ [](pc \in HarvestPcs \ {"clear", "wait"} /\ timed_out => exit_code = -1)
    /\ [](pc = "return" => passes >= 1 /\ img_urls = extracted)

\* C16 witness: the function returns a non-empty set after a timed-out wait
C16_Witness ==
    /\ pc = "return"
    /\ timed_out
    /\ passes >= 1
    /\ img_urls # {}

\* C19: when get_image_urls_from_page returns, every scroll has been followed
\* by an extraction pass, also when the step limit ended the loop.
C19_EveryScrollSampled == pc = "return" => ~unsampled

(***************************************************************************)
(* Properties of the files download_image leaves                          *)
(***************************************************************************)
\* C14: between two calls of download_image and at the end of the run, every
\* file of the destination directory holds the complete body of a retrieval.
C14_OnlyCompleteFiles ==
    pc \in {"fetch", "exit"} => \A f \in DOMAIN disk : disk[f] = "full"

\* a Content-Type value that indicates vector content
IndicatesVector(ct) == \E i \in 1..Len(ct) : ct[i] \in {"svg", "SVG"}

\* the step of the full retrieval
C15_GetStep ==
    /\ disk' = disk
    /\ (gets_ok' = gets_ok \/ IndicatesVector(content_type_seen')
           => /\ pc' = "fetch"
              /\ outcome' \in {"failed", "skipped_vector"}
              /\ successful_downloads' = successful_downloads)
    /\ (gets_ok' # gets_ok /\ ~IndicatesVector(content_type_seen') => pc' = "dl_open")

\* C15: the directory changes only in the statements that follow a full
\* retrieval which succeeded with a content type that is not vector; a
\* retrieval that fails, or succeeds with a content type containing "svg",
\* ends the call with the directory unchanged and no path returned, and a
\* path is returned only with the file written.
C15_WriteOnlyAfterGoodGet ==
    /\ [][(pc = "dl_get") => C15_GetStep]_vars
    /\ [][(disk' # disk) => (pc \in {"dl_open", "dl_write"})]_vars
    /\ [](pc \in {"dl_open", "dl_write"} =>
            /\ gets_ok[url] >= 1
            /\ raised \notin {"get", "open", "write"}
            /\ ~IndicatesVector(content_type_seen))
    /\ [][(successful_downloads' # successful_downloads) =>
            (pc = "dl_write" /\ disk'[FilePath(url)] = "full")]_vars

\* C15 witness: a retrieval succeeded with an SVG content type after a failed
\* one, and the directory still is as it was at the start
C15_Witness ==
    /\ pc = "fetch"
    /\ outcome = "skipped_vector"
    /\ \E u \in AllUrls : gets_ok[u] >= 1
    /\ \E u \in AllUrls : gets[u] > gets_ok[u]
    /\ disk \in InitialDisks
    /\ successful_downloads = 0

\* the step of the header probe
C17_ProbeStep ==
    /\ (raised' = "head" \/ ~IndicatesVector(content_type_seen')
           => /\ pc' = "dl_exists"
              /\ UNCHANGED <<url, outcome, successful_downloads, exit_code, pending>>)
    /\ (raised' # "head" /\ IndicatesVector(content_type_seen')
           => /\ pc' = "fetch"
              /\ outcome' = "skipped_vector"
              /\ successful_downloads' = successful_downloads)
    /\ gets' = gets
    /\ disk' = disk

\* C17: a header probe that fails leaves download_image where a probe with a
\* non-vector content type leaves it, at the existence test with the same
\* URL, directory and counters, so the same statements follow; the failure
\* never makes the call a failure.  A probe that succeeds with a content type
\* containing "svg" ends the call without a retrieval.
C17_ProbeAdvisory ==
    /\ [][(pc = "dl_head") => C17_ProbeStep]_vars
    /\ [](outcome = "failed" <=> raised \in {"get", "open", "write"})

\* C17 witness: the probe of a call failed and the call saved the file
C17_Witness ==
    /\ pc = "fetch"
    /\ raised = "head"
    /\ outcome = "saved"
    /\ disk[FilePath(CurrentUrl)] = "full"

\* what a step may do to the files that exist
C20_FilesKept ==
    \A f \in DOMAIN disk :
        /\ f \in DOMAIN disk'
        /\ (disk'[f] # disk[f] =>
               pc = "dl_write" /\ f = FilePath(url) /\ disk[f] = "partial")

\* C20: no step removes a file or changes a file other than the one the
\* current call has created itself: open(filepath, "wb") is reached only
\* when no file has that name, so it never truncates one.
C20_NoOverwrite ==
    /\ [][C20_FilesKept]_vars
    /\ [](pc = "dl_open" => FilePath(url) \notin DOMAIN disk)
    /\ [](pc = "dl_write" => disk[FilePath(url)] = "partial")

\* C20 witness: the run ends with new files next to a file that was there
\* before the run, for which a call was made and nothing was retrieved
C20_Witness ==
    /\ pc = "exit"
    /\ successful_downloads >= 1
    /\ calls[RefA] >= 1
    /\ gets[AbsA] = 0
    /\ FilePath(AbsA) \in DOMAIN disk
    /\ disk[FilePath(AbsA)] = "full"
    /\ Cardinality(DOMAIN disk) >= 2

(***************************************************************************)
(* Properties of the extraction from srcset                                *)
(***************************************************************************)
\* the URL portions of the candidates the srcset was written from
CandidateUrls == {candidates[i].url : i \in DOMAIN candidates}

\* C18: from a srcset of comma-separated candidates, each a URL with an
\* optional width or density descriptor, extraction returns exactly the URLs
\* of the candidates: no descriptor, no comma, and two candidates never
\* glued into one reference.
C18_SrcsetUrlPortions == pc = "srcset_done" => extracted = CandidateUrls

====
